---- MODULE Spec2Model ----
(***************************************************************************)
(* Model of src/main.py: the BinanceBot exchange client and the linear     *)
(* hedge / wait / unwind workflow of main().                               *)
(*                                                                         *)
(* Python values are modelled as follows.                                  *)
(*   None            the record None                                       *)
(*   a JSON array    List(s), s a sequence                                 *)
(*   a JSON object   a record; an optional key is a field holding <<>>     *)
(*                   (key absent) or <<v>> (key present with value v)      *)
(*   a decimal text  Dec(neg, mag): sign and magnitude of the number the   *)
(*                   exchange prints; amounts are in whole contracts,      *)
(*                   funding rates in units of 0.0001                      *)
(*   a params dict   a sequence of <<key, value>> pairs in insertion order *)
(***************************************************************************)
EXTENDS Integers, Sequences, FiniteSets, TLC

VARIABLES
    pc,              \* position of the script
    keyring_key,     \* keyring entry BINANCE_API_KEY
    keyring_secret,  \* keyring entry BINANCE_API_SECRET
    rtt,             \* milliseconds every HTTP call of this run takes
    now,             \* time.time() * 1000
    requests,        \* every HTTP request handed to the transport, in order
    position_risk,   \* what the exchange answered to the positionRisk call
    positions,       \* main: positions
    fundings,        \* main: the value of funding in each loop iteration
    adjust,          \* main: adjust
    hedged_orders,   \* hedge_positions: hedged_orders / main: hedged_orders
    unwind_orders,   \* unwind_positions: unwind_orders
    slept,           \* number of time.sleep(60) calls made
    exc,             \* exception propagating in main's try block ("" if none)
    stdout,          \* what main printed
    exit_code        \* process exit code (-1 while running)

vars == <<pc, keyring_key, keyring_secret, rtt, now, requests, position_risk,
          positions, fundings, adjust, hedged_orders, unwind_orders, slept,
          exc, stdout, exit_code>>

----------------------------------------------------------------------------
\* Bounds of the model
MaxPositions == 2    \* entries in a positionRisk answer
MaxRtt == 1          \* milliseconds a request may take

\* Program constants
FundingThreshold == 5    \* 0.0005 in units of 0.0001
SleepSeconds == 60
MsPerSecond == 1000

----------------------------------------------------------------------------
\* Python values

None == [t |-> "None"]
List(s) == [t |-> "list", v |-> s]
Dec(neg, mag) == [neg |-> neg, mag |-> mag]

\* "not x" for x None or a list
Falsy(x) == x = None \/ x = List(<<>>)

\* "not s" for s None (<<>>) or a string (<<s>>)
FalsyStr(s) == s = <<>> \/ s = <<"">>

\* float(text)
ParseFloat(d) == IF d.neg THEN 0 - d.mag ELSE d.mag

\* float(obj.get(key, 0)) for an optional field
FloatGet(opt) == IF opt = <<>> THEN 0 ELSE ParseFloat(opt[1])

Abs(x) == IF x < 0 THEN 0 - x ELSE x

\* f"{value}" of a float holding a whole number, and of an int
FormatFloat(x) == ToString(x) \o ".0"
FormatInt(n) == ToString(n)

\* params[key] = value on an insertion-ordered dict
SetItem(params, key, value) ==
    IF \E k \in 1..Len(params) : params[k][1] = key
    THEN [k \in 1..Len(params) |->
             IF params[k][1] = key THEN <<key, value>> ELSE params[k]]
    ELSE Append(params, <<key, value>>)

----------------------------------------------------------------------------
\* Signing

RECURSIVE Join(_)
\* "&".join([f"{key}={value}" for key, value in params.items()])
Join(params) ==
    IF params = <<>> THEN ""
    ELSE IF Len(params) = 1 THEN params[1][1] \o "=" \o params[1][2]
    ELSE params[1][1] \o "=" \o params[1][2] \o "&" \o Join(Tail(params))

\* hmac.new(secret, msg, sha256).hexdigest(), kept symbolic
HmacSha256Hex(secret, msg) == "hmac[" \o secret \o "](" \o msg \o ")"

generate_signature(secret, params) == HmacSha256Hex(secret, Join(params))

\* Faulty variant of Sign: the signature key is already in the mapping when
\* the string to sign is built
SignIncludingSignature(secret, params) ==
    SetItem(params, "signature",
            generate_signature(secret, Append(params, <<"signature", "">>)))

\* params["signature"] = self._generate_signature(params)
Sign(secret, params) ==
    SetItem(params, "signature", generate_signature(secret, params))

----------------------------------------------------------------------------
\* The exchange and the credential store

KeyringValues == {<<>>, <<"">>, <<"k">>}

\* Entries a positionRisk answer may hold
PositionEntries ==
    { [symbol |-> "BTCUSDT", positionSide |-> "LONG",  positionAmt |-> <<Dec(FALSE, 2)>>],
      [symbol |-> "BTCUSDT", positionSide |-> "SHORT", positionAmt |-> <<Dec(TRUE, 3)>>],
      [symbol |-> "ETHUSDT", positionSide |-> "BOTH",  positionAmt |-> <<Dec(TRUE, 1)>>],
      [symbol |-> "ETHUSDT", positionSide |-> "LONG",  positionAmt |-> <<Dec(FALSE, 0)>>],
      [symbol |-> "ETHUSDT", positionSide |-> "SHORT", positionAmt |-> <<Dec(TRUE, 0)>>],
      [symbol |-> "BTCUSDT", positionSide |-> "BOTH",  positionAmt |-> <<>>] }

SeqsUpTo(n, S) == UNION { [1..k -> S] : k \in 0..n }

\* What _make_request may return for GET /fapi/v3/positionRisk
PositionRiskResponses ==
    {None} \cup { List(s) : s \in SeqsUpTo(MaxPositions, PositionEntries) }

\* What _make_request may return for GET /fapi/v1/premiumIndex
FundingResponses ==
    {None} \cup { [t |-> "dict", lastFundingRate |-> r] :
                    r \in {<<>>} \cup { <<Dec(n, m)>> : n \in BOOLEAN,
                           m \in {FundingThreshold, FundingThreshold + 1} } }

\* What _make_request may return for POST /fapi/v1/order: the exchange echoes
\* the order, with or without origQty
OrderResponses(order) ==
    {None} \cup { [t |-> "dict", symbol |-> order.symbol,
                   positionSide |-> order.positionSide,
                   origQty |-> q] : q \in {<<>>, <<Dec(FALSE, order.quantity)>>} }

----------------------------------------------------------------------------
\* BinanceBot

\* self.api_key / self.api_secret after __init__ (no constructor arguments)
api_key == keyring_key[1]
api_secret == keyring_secret[1]

\* Faulty variant of MissingCredentials: tests "is None" instead of falsiness
MissingCredentialsNoneOnly(key, secret) == key = <<>> \/ secret = <<>>

\* __init__: "if not self.api_key or not self.api_secret: raise ValueError"
MissingCredentials(key, secret) == FalsyStr(key) \/ FalsyStr(secret)

\* The request _make_request hands to requests.get / requests.post
Request(method, endpoint, params, args) ==
    [method |-> method, endpoint |-> endpoint, params |-> params,
     args |-> args, headers |-> <<"X-MBX-APIKEY", api_key>>]

\* Faulty variant of FilterPositions: keeps positive amounts only
RECURSIVE FilterPositionsPositive(_)
FilterPositionsPositive(s) ==
    IF s = <<>> THEN <<>>
    ELSE IF FloatGet(s[1].positionAmt) > 0
         THEN <<s[1]>> \o FilterPositionsPositive(Tail(s))
         ELSE FilterPositionsPositive(Tail(s))

\* get_positions: the list comprehension over the answer
RECURSIVE FilterPositions(_)
FilterPositions(s) ==
    IF s = <<>> THEN <<>>
    ELSE IF FloatGet(s[1].positionAmt) # 0
         THEN <<s[1]>> \o FilterPositions(Tail(s))
         ELSE FilterPositions(Tail(s))

\* get_positions: the value returned for an answer of _make_request
get_positions_result(answer) ==
    IF ~Falsy(answer) THEN List(FilterPositions(answer.v)) ELSE None

\* Faulty variant of Selected: the thresholds are inclusive
SelectedInclusive(side, funding) ==
    \/ side = "LONG" /\ FloatGet(funding.lastFundingRate) >= FundingThreshold
    \/ side = "SHORT" /\ FloatGet(funding.lastFundingRate) <= 0 - FundingThreshold

\* main: the funding-rate test of one loop iteration
Selected(side, funding) ==
    \/ side = "LONG" /\ FloatGet(funding.lastFundingRate) > FundingThreshold
    \/ side = "SHORT" /\ FloatGet(funding.lastFundingRate) < 0 - FundingThreshold

\* main: the loop body evaluates funding.get(...) exactly for these sides
ReadsFunding(side) == side = "LONG" \/ side = "SHORT"

\* Faulty variant of HedgeOrder: the quantity keeps the sign of positionAmt
HedgeOrderSigned(position, ts) ==
    [symbol |-> position.symbol,
     side |-> IF position.positionSide = "SHORT" THEN "BUY" ELSE "SELL",
     type |-> "MARKET",
     positionSide |-> IF position.positionSide = "SHORT" THEN "LONG" ELSE "SHORT",
     quantity |-> ParseFloat(position.positionAmt[1]),
     timestamp |-> ts]

\* hedge_positions: the params dict of one order, before signing
HedgeOrder(position, ts) ==
    [symbol |-> position.symbol,
     side |-> IF position.positionSide = "SHORT" THEN "BUY" ELSE "SELL",
     type |-> "MARKET",
     positionSide |-> IF position.positionSide = "SHORT" THEN "LONG" ELSE "SHORT",
     quantity |-> Abs(ParseFloat(position.positionAmt[1])),
     timestamp |-> ts]

\* Faulty variant of UnwindOrder: flips positionSide as hedge_positions does
UnwindOrderFlipped(order, ts) ==
    [symbol |-> order.symbol,
     side |-> IF order.positionSide = "SHORT" THEN "BUY" ELSE "SELL",
     type |-> "MARKET",
     positionSide |-> IF order.positionSide = "SHORT" THEN "LONG" ELSE "SHORT",
     quantity |-> Abs(FloatGet(order.origQty)),
     timestamp |-> ts]

\* unwind_positions: the params dict of one order, before signing
UnwindOrder(order, ts) ==
    [symbol |-> order.symbol,
     side |-> IF order.positionSide = "SHORT" THEN "BUY" ELSE "SELL",
     type |-> "MARKET",
     positionSide |-> order.positionSide,
     quantity |-> Abs(FloatGet(order.origQty)),
     timestamp |-> ts]

\* The order dict as the insertion-ordered mapping that is signed and sent
OrderParams(o) ==
    << <<"symbol", o.symbol>>, <<"side", o.side>>, <<"type", o.type>>,
       <<"positionSide", o.positionSide>>,
       <<"quantity", FormatFloat(o.quantity)>>,
       <<"timestamp", FormatInt(o.timestamp)>> >>

\* Faulty variant of AppendResponse: a failed order leaves no entry
AppendResponseSkipNone(orders, response) ==
    IF response = None THEN orders ELSE Append(orders, response)

\* hedge_positions / unwind_positions: hedged_orders.append(response)
AppendResponse(orders, response) == Append(orders, response)

----------------------------------------------------------------------------
\* The script

Init ==
    /\ pc = "construct"
    /\ keyring_key \in KeyringValues
    /\ keyring_secret \in KeyringValues
    /\ rtt \in 0..MaxRtt
    /\ now = 0
    /\ requests = <<>>
    /\ position_risk = None
    /\ positions = None
    /\ fundings = <<>>
    /\ adjust = <<>>
    /\ hedged_orders = <<>>
    /\ unwind_orders = <<>>
    /\ slept = 0
    /\ exc = ""
    /\ stdout = ""
    /\ exit_code = -1

\* main: bot = BinanceBot(), and the handler of its ValueError
Construct ==
    /\ pc = "construct"
    /\ IF MissingCredentials(keyring_key, keyring_secret)
       THEN /\ stdout' = "Configuration error: API Key and Secret must be provided."
            /\ exit_code' = 1
            /\ pc' = "exit"
       ELSE /\ pc' = "get_positions"
            /\ UNCHANGED <<stdout, exit_code>>
    /\ UNCHANGED <<keyring_key, keyring_secret, rtt, now, requests,
                   position_risk, positions, fundings, adjust, hedged_orders,
                   unwind_orders, slept, exc>>

\* main: positions = bot.get_positions(); if not positions: return
GetPositions ==
    /\ pc = "get_positions"
    /\ \E answer \in PositionRiskResponses :
         LET params == Sign(api_secret, << <<"timestamp", FormatInt(now)>> >>)
             result == get_positions_result(answer)
         IN /\ requests' = Append(requests,
                   Request("GET", "/fapi/v3/positionRisk", params,
                           [timestamp |-> now]))
            /\ position_risk' = answer
            /\ positions' = result
            /\ IF Falsy(result)
               THEN pc' = "exit" /\ exit_code' = 0
               ELSE pc' = "decide" /\ UNCHANGED exit_code
    /\ now' = now + rtt
    /\ UNCHANGED <<keyring_key, keyring_secret, rtt, fundings, adjust,
                   hedged_orders, unwind_orders, slept, exc, stdout>>

\* main: one iteration of "for position in positions", and after the last
\* one "if not adjust: return"
Decide ==
    /\ pc = "decide"
    /\ LET position == positions.v[Len(fundings) + 1]
           side == position.positionSide
       IN \E funding \in FundingResponses :
            /\ requests' = Append(requests,
                   Request("GET", "/fapi/v1/premiumIndex?symbol=" \o position.symbol,
                           <<>>, [symbol |-> position.symbol]))
            /\ fundings' = Append(fundings, funding)
            /\ IF funding = None /\ ReadsFunding(side)
               THEN /\ exc' = "AttributeError"
                    /\ pc' = "except"
                    /\ UNCHANGED <<adjust, exit_code>>
               ELSE /\ adjust' = IF funding # None /\ Selected(side, funding)
                                 THEN Append(adjust, position) ELSE adjust
                    /\ UNCHANGED exc
                    /\ IF Len(fundings') < Len(positions.v)
                       THEN pc' = "decide" /\ UNCHANGED exit_code
                       ELSE IF adjust' = <<>>
                            THEN pc' = "exit" /\ exit_code' = 0
                            ELSE pc' = "hedge" /\ UNCHANGED exit_code
    /\ now' = now + rtt
    /\ UNCHANGED <<keyring_key, keyring_secret, rtt, position_risk, positions,
                   hedged_orders, unwind_orders, slept, stdout>>

\* hedge_positions: one iteration of "for position in positions"
Hedge ==
    /\ pc = "hedge"
    /\ LET order == HedgeOrder(adjust[Len(hedged_orders) + 1], now)
       IN \E response \in OrderResponses(order) :
            /\ requests' = Append(requests,
                   Request("POST", "/fapi/v1/order",
                           Sign(api_secret, OrderParams(order)), order))
            /\ hedged_orders' = AppendResponse(hedged_orders, response)
    /\ pc' = IF Len(hedged_orders') < Len(adjust) THEN "hedge" ELSE "sleep"
    /\ now' = now + rtt
    /\ UNCHANGED <<keyring_key, keyring_secret, rtt, position_risk, positions,
                   fundings, adjust, unwind_orders, slept, exc, stdout,
                   exit_code>>

\* main: time.sleep(60)
Sleep ==
    /\ pc = "sleep"
    /\ now' = now + SleepSeconds * MsPerSecond
    /\ slept' = slept + 1
    /\ pc' = "unwind"
    /\ UNCHANGED <<keyring_key, keyring_secret, rtt, requests, position_risk,
                   positions, fundings, adjust, hedged_orders, unwind_orders,
                   exc, stdout, exit_code>>

\* unwind_positions: one iteration of "for order in orders"; main returns
\* after the last one
Unwind ==
    /\ pc = "unwind"
    /\ LET hedged == hedged_orders[Len(unwind_orders) + 1]
       IN IF hedged = None
          THEN /\ exc' = "TypeError"
               /\ pc' = "except"
               /\ UNCHANGED <<requests, unwind_orders, now, exit_code>>
          ELSE LET order == UnwindOrder(hedged, now)
               IN /\ \E response \in OrderResponses(order) :
                       /\ requests' = Append(requests,
                              Request("POST", "/fapi/v1/order",
                                      Sign(api_secret, OrderParams(order)), order))
                       /\ unwind_orders' = AppendResponse(unwind_orders, response)
                  /\ now' = now + rtt
                  /\ UNCHANGED exc
                  /\ IF Len(unwind_orders') < Len(hedged_orders)
                     THEN pc' = "unwind" /\ UNCHANGED exit_code
                     ELSE pc' = "exit" /\ exit_code' = 0
    /\ UNCHANGED <<keyring_key, keyring_secret, rtt, position_risk, positions,
                   fundings, adjust, hedged_orders, slept, stdout>>

\* main: "except Exception as e: ...; sys.exit(1)"
Except ==
    /\ pc = "except"
    /\ exit_code' = 1
    /\ pc' = "exit"
    /\ UNCHANGED <<keyring_key, keyring_secret, rtt, now, requests,
                   position_risk, positions, fundings, adjust, hedged_orders,
                   unwind_orders, slept, exc, stdout>>

Next ==
    \/ Construct
    \/ GetPositions
    \/ Decide
    \/ Hedge
    \/ Sleep
    \/ Unwind
    \/ Except

Spec == Init /\ [][Next]_vars

----------------------------------------------------------------------------
\* Views of the state used by the properties below

CredentialsAbsent ==
    keyring_key \in {<<>>, <<"">>} \/ keyring_secret \in {<<>>, <<"">>}

IsOrderRequest(r) == r.method = "POST" /\ r.endpoint = "/fapi/v1/order"
IsSignedRequest(r) == IsOrderRequest(r) \/ r.endpoint = "/fapi/v3/positionRisk"

\* The order requests sent so far: first those of hedge_positions, then those
\* of unwind_positions
OrderRequests == SelectSeq(requests, IsOrderRequest)
HedgeRequests ==
    SubSeq(OrderRequests, 1, IF slept = 0 THEN Len(OrderRequests) ELSE Len(adjust))
UnwindRequests ==
    IF slept = 0 THEN <<>>
    ELSE SubSeq(OrderRequests, Len(adjust) + 1, Len(OrderRequests))

HedgeReturned == pc = "sleep" \/ slept > 0
UnwindCalled == slept > 0

\* The selection rule as the specification words it, on the decimal text
RuleSelects(position, funding) ==
    /\ funding # None
    /\ funding.lastFundingRate # <<>>
    /\ LET rate == funding.lastFundingRate[1]
       IN \/ /\ position.positionSide = "LONG"
             /\ ~rate.neg /\ rate.mag > FundingThreshold
          \/ /\ position.positionSide = "SHORT"
             /\ rate.neg /\ rate.mag > FundingThreshold

\* Positions 1..n of the fetched list the rule selects, in order
RECURSIVE RuleSelection(_)
RuleSelection(n) ==
    IF n = 0 THEN <<>>
    ELSE IF RuleSelects(positions.v[n], fundings[n])
         THEN Append(RuleSelection(n - 1), positions.v[n])
         ELSE RuleSelection(n - 1)

HasNonzeroAmt(position) ==
    position.positionAmt # <<>> /\ position.positionAmt[1].mag # 0

----------------------------------------------------------------------------
\* C1: a transport failure of any single HTTP call is absorbed: no exception
\* propagates in the main workflow and a run with credentials never ends with
\* exit code 1.
C1_TransportFailureAbsorbed ==
    /\ exc = ""
    /\ (pc = "exit" /\ ~CredentialsAbsent) => exit_code = 0

\* C2: unwind_positions tolerates absent entries of its input: once called it
\* processes every entry and returns as many entries as it was given.
C2_UnwindToleratesAbsentEntries ==
    (UnwindCalled /\ pc \in {"except", "exit"}) =>
        /\ exc = ""
        /\ Len(unwind_orders) = Len(hedged_orders)

\* C3: hedge_positions submits exactly one order per position, in input order,
\* goes on after a failed order, and returns one entry per position: the
\* answer to that position's order, or None where the order failed.
C3_HedgeOneOrderPerPosition ==
    /\ Len(HedgeRequests) = Len(hedged_orders)
    /\ Len(hedged_orders) <= Len(adjust)
    /\ HedgeReturned => Len(hedged_orders) = Len(adjust)
    /\ (pc = "hedge") => Len(hedged_orders) < Len(adjust)
    /\ \A j \in 1..Len(hedged_orders) :
          /\ HedgeRequests[j].args.symbol = adjust[j].symbol
          /\ HedgeRequests[j].args.positionSide # adjust[j].positionSide
          /\ \/ hedged_orders[j] = None
             \/ /\ hedged_orders[j].symbol = HedgeRequests[j].args.symbol
                /\ hedged_orders[j].positionSide = HedgeRequests[j].args.positionSide

C3_Witness ==
    /\ HedgeReturned
    /\ Len(adjust) = 2
    /\ adjust[1].positionSide # adjust[2].positionSide
    /\ hedged_orders[1] = None
    /\ hedged_orders[2] # None

\* C4: with every hedge order answered, the workflow sends one hedge order per
\* selected position, then sleeps 60 seconds once, then sends one unwind order
\* per hedge answer; every unwind order follows all hedge orders and the
\* sleep, and carries the symbol and positionSide of its hedge answer and the
\* answer's origQty as quantity (0 when origQty is missing).
C4_HedgeWaitUnwind ==
    /\ slept <= 1
    /\ Len(OrderRequests) = Len(hedged_orders) + Len(unwind_orders)
    /\ (slept = 1 \/ unwind_orders # <<>>) =>
          /\ slept = 1
          /\ Len(hedged_orders) = Len(adjust)
          /\ adjust # <<>>
    /\ \A j \in 1..Len(unwind_orders) :
          LET h == hedged_orders[j]
              o == UnwindRequests[j].args
          IN /\ h # None
             /\ o.symbol = h.symbol
             /\ o.positionSide = h.positionSide
             /\ o.type = "MARKET"
             /\ o.quantity = IF h.origQty = <<>> THEN 0 ELSE h.origQty[1].mag
             /\ \A i \in 1..Len(HedgeRequests) :
                   o.timestamp >= HedgeRequests[i].args.timestamp
                                     + SleepSeconds * MsPerSecond
    /\ ( /\ pc = "exit"
         /\ adjust # <<>>
         /\ Len(hedged_orders) = Len(adjust)
         /\ \A j \in 1..Len(hedged_orders) : hedged_orders[j] # None )
       => /\ Len(unwind_orders) = Len(hedged_orders)
          /\ exit_code = 0

C4_Witness ==
    /\ pc = "exit"
    /\ Len(adjust) = 2
    /\ Len(unwind_orders) = 2
    /\ hedged_orders[1].origQty = <<>>
    /\ hedged_orders[2].origQty # <<>>
    /\ hedged_orders[1].positionSide # hedged_orders[2].positionSide

\* C5: when get_positions yields no positions, or no fetched position
\* satisfies the selection rule, the run ends with exit code 0 and without any
\* order; an order is sent only for a selected position.
C5_NoSelectionNoOrders ==
    /\ (pc = "exit" /\ ~CredentialsAbsent /\ RuleSelection(Len(fundings)) = <<>>) =>
          /\ exit_code = 0
          /\ OrderRequests = <<>>
    /\ \A j \in 1..Len(HedgeRequests) :
          \E k \in 1..Len(fundings) :
             /\ RuleSelects(positions.v[k], fundings[k])
             /\ HedgeRequests[j].args.symbol = positions.v[k].symbol

\* C6: a position is selected exactly when it is LONG with lastFundingRate
\* above 0.0005 or SHORT with lastFundingRate below -0.0005 (a rate equal to
\* the threshold does not select), and adjust keeps the order of positions.
C6_SelectionRule ==
    /\ Len(fundings) > 0 => (positions # None /\ Len(fundings) <= Len(positions.v))
    /\ adjust = RuleSelection(Len(fundings))

C6_Witness ==
    /\ Len(fundings) = 2
    /\ positions.v[1].positionSide = "LONG"
    /\ fundings[1] # None
    /\ fundings[1].lastFundingRate = <<Dec(FALSE, FundingThreshold)>>
    /\ positions.v[2].positionSide = "SHORT"
    /\ fundings[2] # None
    /\ fundings[2].lastFundingRate = <<Dec(TRUE, FundingThreshold + 1)>>
    /\ adjust = <<positions.v[2]>>

\* C7: the hedge order of a position opposes it: SHORT gives BUY / LONG, LONG
\* gives SELL / SHORT; the type is MARKET, the symbol is the position's and
\* the quantity is the absolute value of positionAmt, never negative.
C7_HedgeOpposesPosition ==
    \A j \in 1..Len(HedgeRequests) :
       LET p == adjust[j]
           o == HedgeRequests[j].args
       IN /\ p.positionSide = "SHORT" => (o.side = "BUY" /\ o.positionSide = "LONG")
          /\ p.positionSide = "LONG" => (o.side = "SELL" /\ o.positionSide = "SHORT")
          /\ o.type = "MARKET"
          /\ o.symbol = p.symbol
          /\ o.quantity >= 0
          /\ o.quantity = p.positionAmt[1].mag

C7_Witness ==
    \E j \in 1..Len(HedgeRequests) :
       /\ adjust[j].positionSide = "SHORT"
       /\ adjust[j].positionAmt[1].neg
       /\ HedgeRequests[j].args.quantity > 0

\* C8: with the API key or secret missing the process reports a configuration
\* error and exits with code 1 without any request; otherwise it exits with
\* code 1 exactly when an exception propagated in the main workflow, and with
\* code 0 if none did.
C8_ExitCodes ==
    /\ CredentialsAbsent =>
          /\ requests = <<>>
          /\ pc \in {"construct", "exit"}
          /\ pc = "exit" => (exit_code = 1 /\ stdout # "")
    /\ (~CredentialsAbsent /\ pc = "exit") =>
          /\ exit_code \in {0, 1}
          /\ exit_code = 1 <=> exc # ""
          /\ stdout = ""
    /\ pc # "exit" => exit_code = -1

C8_Witness ==
    /\ pc = "exit"
    /\ keyring_key = <<"k">>
    /\ keyring_secret = <<"">>
    /\ exit_code = 1
    /\ requests = <<>>

\* C9: get_positions returns exactly the entries of the answer whose
\* positionAmt is nonzero, of either sign, in the answer's order; it returns
\* None or an empty list when the request failed or no entry is open.
C9_PositionFilter ==
    (pc \notin {"construct", "get_positions"} /\ ~CredentialsAbsent) =>
        /\ (position_risk = None \/ position_risk = List(<<>>)) => positions = None
        /\ (position_risk # None /\ position_risk # List(<<>>)) =>
              positions = List(SelectSeq(position_risk.v, HasNonzeroAmt))
        /\ (position_risk = None
              \/ \A k \in 1..Len(position_risk.v) : ~HasNonzeroAmt(position_risk.v[k]))
           => (positions = None \/ positions = List(<<>>))

C9_Witness ==
    /\ position_risk # None
    /\ Len(position_risk.v) = 2
    /\ ~HasNonzeroAmt(position_risk.v[1])
    /\ position_risk.v[2].positionAmt = <<Dec(TRUE, 3)>>
    /\ positions = List(<<position_risk.v[2]>>)

\* C10: in every signed request the signed string is the "&"-join of
\* key=value over the parameters other than the signature, in insertion
\* order; the signature is the last parameter and is not part of what is
\* signed; equal parameters get equal signatures.
C10_SignatureLastAndExcluded ==
    /\ \A i \in 1..Len(requests) :
          LET r == requests[i]
              n == Len(r.params)
          IN IsSignedRequest(r) =>
                /\ n >= 2
                /\ r.params[n][1] = "signature"
                /\ \A k \in 1..(n - 1) : r.params[k][1] # "signature"
                /\ r.params[n][2] =
                      HmacSha256Hex(api_secret, Join(SubSeq(r.params, 1, n - 1)))
                /\ IsOrderRequest(r) =>
                      /\ SubSeq(r.params, 1, n - 1) = OrderParams(r.args)
                      /\ [k \in 1..n |-> r.params[k][1]] =
                            <<"symbol", "side", "type", "positionSide",
                              "quantity", "timestamp", "signature">>
    /\ \A i, j \in 1..Len(requests) :
          ( /\ IsSignedRequest(requests[i])
            /\ IsSignedRequest(requests[j])
            /\ Len(requests[i].params) = Len(requests[j].params)
            /\ \A k \in 1..(Len(requests[i].params) - 1) :
                  requests[i].params[k] = requests[j].params[k] )
          => requests[i].params = requests[j].params

C10_Witness ==
    /\ Len(UnwindRequests) = 1
    /\ Len(HedgeRequests) = 2
    /\ HedgeRequests[1].params = HedgeRequests[2].params
    /\ UnwindRequests[1].params # HedgeRequests[1].params

====
